---- MODULE Spec2Model ----
(***************************************************************************)
(* A model of devenv.py: the local branch reconcile (setup_git), the       *)
(* deployment bucket provisioning (setup_deployment_bucket), the Amplify   *)
(* create and remove workflows, and the command-line driver (__main__).    *)
(*                                                                         *)
(* Names (branch names, environment names, tickets) are sequences of       *)
(* tokens, so that lower-casing and the "issue/" prefix are computed.      *)
(* The empty sequence stands for both '' and None: the code only tests     *)
(* such values for truthiness.                                             *)
(*                                                                         *)
(* Line 148 calls Path.exists on the configured path; the model takes its  *)
(* result as the input path_exists of setup_git.                           *)
(***************************************************************************)
EXTENDS Integers, Sequences, FiniteSets, TLC

VARIABLES repo,      \* product -> the local repository at config[product]['path']
          buckets,   \* bucket name -> configuration, for the buckets that exist
          amplify,   \* app id -> (branch name -> properties), the cloud branches
          jobs,      \* the release jobs started, as [appId, branchName, jobType]
          history,   \* the operations performed, each with its gateway calls
          pc,        \* position of the command-line driver
          args       \* the parsed command-line arguments

vars == <<repo, buckets, amplify, jobs, history, pc, args>>

(***************************************************************************)
(* Names                                                                   *)
(***************************************************************************)
EMPTY == <<>>

MAIN == <<"main">>

QA_UPPER == <<"Q", "A">>

QA_LOWER == <<"q", "a">>

ISSUE_PREFIX == <<"issue/">>

BUCKET_PREFIX == <<"serverless-deployment-state-">>

\* a variant that forgets to lower-case
LowerIdentity(s) == s

\* str.lower(), character by character
LowerChar(c) ==
    CASE c = "Q" -> "q"
      [] c = "A" -> "a"
      [] OTHER -> c

Lower(s) == [i \in 1..Len(s) |-> LowerChar(s[i])]

(***************************************************************************)
(* config.ini: claire has a default branch, wellsky-apps has none.         *)
(***************************************************************************)
config ==
    ("claire" :> ("app_id" :> "claire-app" @@ "path" :> "claire-repo"
                  @@ "default-branch" :> MAIN))
    @@ ("wellsky-apps" :> ("app_id" :> "wellsky-app" @@ "path" :> "wellsky-repo"))

Products == {"claire", "wellsky-apps"}

(***************************************************************************)
(* The version-control backend (GitPython over git).  A step applies to a  *)
(* running computation g = [r, calls, outcome] and does nothing once the   *)
(* outcome is an exception.                                                *)
(***************************************************************************)
GitStart(r) == [r |-> r, calls |-> <<>>, outcome |-> "ok"]

GitRaise(g, exc) == [g EXCEPT !.outcome = exc]

\* repo.git.checkout(name): switches to a local branch; with no local branch
\* of that name git creates one from origin/<name> when that exists (and
\* refuses when local changes conflict with it); otherwise the command fails.
Checkout(g, name, conflict) ==
    IF g.outcome # "ok" THEN g
    ELSE IF name \in g.r.branches
    THEN [g EXCEPT !.r.current = name,
                   !.calls = Append(@, [op |-> "checkout", name |-> name, ok |-> TRUE])]
    ELSE IF name \in g.r.origin /\ ~(g.r.dirty /\ conflict)
    THEN [g EXCEPT !.r.current = name,
                   !.r.branches = @ \cup {name},
                   !.calls = Append(@, [op |-> "checkout", name |-> name, ok |-> TRUE])]
    ELSE [g EXCEPT !.calls = Append(@, [op |-> "checkout", name |-> name, ok |-> FALSE]),
                   !.outcome = "GitCommandError"]

\* repo.create_head(name)
CreateHead(g, name) ==
    IF g.outcome # "ok" THEN g
    ELSE [g EXCEPT !.r.branches = @ \cup {name},
                   !.calls = Append(@, [op |-> "create_head", name |-> name, ok |-> TRUE])]

\* repo.remote(name='origin').push(name)
Push(g, name) ==
    IF g.outcome # "ok" THEN g
    ELSE [g EXCEPT !.r.origin = @ \cup {name},
                   !.calls = Append(@, [op |-> "push", name |-> name, ok |-> TRUE])]

(***************************************************************************)
(* setup_git                                                               *)
(***************************************************************************)
\* variants of SwitchToDefault: without the dirty check; with no_create
\* tested the wrong way round
SwitchToDefaultUnguarded(g, product, no_create, reset_only, conflict) ==
    IF (~no_create \/ reset_only) /\ "default-branch" \in DOMAIN config[product]
    THEN Checkout(g, config[product]["default-branch"], conflict)
    ELSE g

SwitchToDefaultWrongFlag(g, product, no_create, reset_only, conflict) ==
    IF (no_create \/ reset_only) /\ "default-branch" \in DOMAIN config[product]
    THEN IF g.r.dirty
         THEN GitRaise(g, "ValueError: repo is dirty")
         ELSE Checkout(g, config[product]["default-branch"], conflict)
    ELSE g

\* lines 156-161: switch to the default branch first
SwitchToDefault(g, product, no_create, reset_only, conflict) ==
    IF (~no_create \/ reset_only) /\ "default-branch" \in DOMAIN config[product]
    THEN IF g.r.dirty
         THEN GitRaise(g, "ValueError: repo is dirty")
         ELSE Checkout(g, config[product]["default-branch"], conflict)
    ELSE g

\* variants of ResolveBranch: the new branch is not pushed; the existing
\* branch is checked out without the dirty check
ResolveBranchNoPush(g, branch_name, no_create, ignore_non_existing) ==
    IF g.outcome # "ok" THEN g
    ELSE IF branch_name \notin g.r.branches
    THEN IF no_create /\ ignore_non_existing
         THEN g
         ELSE IF no_create
         THEN GitRaise(g, "ValueError: branch does not exist")
         ELSE CreateHead(g, branch_name)
    ELSE IF g.r.dirty
    THEN GitRaise(g, "ValueError: repo is dirty")
    ELSE g

ResolveBranchNoDirtyCheck(g, branch_name, no_create, ignore_non_existing) ==
    IF g.outcome # "ok" THEN g
    ELSE IF branch_name \notin g.r.branches
    THEN IF no_create /\ ignore_non_existing
         THEN g
         ELSE IF no_create
         THEN GitRaise(g, "ValueError: branch does not exist")
         ELSE Push(CreateHead(g, branch_name), branch_name)
    ELSE g

\* lines 165-176: the branch is missing, or present
ResolveBranch(g, branch_name, no_create, ignore_non_existing) ==
    IF g.outcome # "ok" THEN g
    ELSE IF branch_name \notin g.r.branches
    THEN IF no_create /\ ignore_non_existing
         THEN g
         ELSE IF no_create
         THEN GitRaise(g, "ValueError: branch does not exist")
         ELSE Push(CreateHead(g, branch_name), branch_name)
    ELSE IF g.r.dirty
    THEN GitRaise(g, "ValueError: repo is dirty")
    ELSE g

\* lines 145-178; the result is [r, calls, outcome] for the product's repository
setup_git(rp, product, branch_name, no_create, ignore_non_existing, reset_only, path_exists, conflict) ==
    IF product \notin DOMAIN config
    THEN [r |-> EMPTY, calls |-> <<>>, outcome |-> "KeyError"]
    ELSE IF ~path_exists \/ product = "" \/ branch_name = EMPTY
    THEN GitRaise(GitStart(rp[product]), "AssertionError")
    ELSE LET g1 == SwitchToDefault(GitStart(rp[product]), product, no_create,
                                   reset_only, conflict)
         IN  IF g1.outcome = "ok" /\ reset_only
             THEN g1
             ELSE Checkout(ResolveBranch(g1, branch_name, no_create,
                                         ignore_non_existing),
                           branch_name, conflict)

(***************************************************************************)
(* The storage and deployment services (boto3 clients).  A step applies to *)
(* a running computation c = [buckets, amplify, jobs, calls, reported,     *)
(* outcome]; faults is the set of service calls that the service refuses   *)
(* in this operation (permission, quota, network), each raising            *)
(* ClientError.                                                            *)
(***************************************************************************)
PUBLIC_ACCESS_FLAGS ==
    {"BlockPublicAcls", "IgnorePublicAcls", "BlockPublicPolicy", "RestrictPublicBuckets"}

CloudStart(w) ==
    [buckets |-> w.buckets, amplify |-> w.amplify, jobs |-> w.jobs,
     calls |-> <<>>, reported |-> <<>>, outcome |-> "ok"]

S3Entry(kind, name, ok) == [op |-> kind, name |-> name, ok |-> ok]

AmplifyEntry(kind, app, name, ok) == [op |-> kind, app |-> app, name |-> name, ok |-> ok]

\* s3_client.create_bucket: refused when the name is taken
CreateBucket(c, name, faults) ==
    IF c.outcome # "ok" THEN c
    ELSE IF name \in DOMAIN c.buckets \/ "create_bucket" \in faults
    THEN [c EXCEPT !.calls = Append(@, S3Entry("create_bucket", name, FALSE)),
                   !.outcome = "ClientError"]
    ELSE [c EXCEPT !.calls = Append(@, S3Entry("create_bucket", name, TRUE)),
                   !.buckets = (name :> [acl |-> "private", region |-> "us-west-2",
                                         encryption |-> "none",
                                         public_access_block |-> {}]) @@ @]

\* s3_client.put_bucket_encryption
PutBucketEncryption(c, name, algorithm, faults) ==
    IF c.outcome # "ok" THEN c
    ELSE IF name \notin DOMAIN c.buckets \/ "put_bucket_encryption" \in faults
    THEN [c EXCEPT !.calls = Append(@, S3Entry("put_bucket_encryption", name, FALSE)),
                   !.outcome = "ClientError"]
    ELSE [c EXCEPT !.calls = Append(@, S3Entry("put_bucket_encryption", name, TRUE)),
                   !.buckets[name].encryption = algorithm]

\* s3_client.put_public_access_block
PutPublicAccessBlock(c, name, flags, faults) ==
    IF c.outcome # "ok" THEN c
    ELSE IF name \notin DOMAIN c.buckets \/ "put_public_access_block" \in faults
    THEN [c EXCEPT !.calls = Append(@, S3Entry("put_public_access_block", name, FALSE)),
                   !.outcome = "ClientError"]
    ELSE [c EXCEPT !.calls = Append(@, S3Entry("put_public_access_block", name, TRUE)),
                   !.buckets[name].public_access_block = flags]

\* client.create_branch: refused when the app already has the branch
CreateBranch(c, app, name, props, faults) ==
    IF c.outcome # "ok" THEN c
    ELSE IF name \in DOMAIN c.amplify[app] \/ "create_branch" \in faults
    THEN [c EXCEPT !.calls = Append(@, AmplifyEntry("create_branch", app, name, FALSE)),
                   !.outcome = "ClientError"]
    ELSE [c EXCEPT !.calls = Append(@, AmplifyEntry("create_branch", app, name, TRUE)),
                   !.amplify[app] = (name :> props) @@ @]

\* client.start_job: refused when the app has no such branch
StartJob(c, app, name, faults) ==
    IF c.outcome # "ok" THEN c
    ELSE IF name \notin DOMAIN c.amplify[app] \/ "start_job" \in faults
    THEN [c EXCEPT !.calls = Append(@, AmplifyEntry("start_job", app, name, FALSE)),
                   !.outcome = "ClientError"]
    ELSE [c EXCEPT !.calls = Append(@, AmplifyEntry("start_job", app, name, TRUE)),
                   !.jobs = @ \cup {[appId |-> app, branchName |-> name,
                                     jobType |-> "RELEASE"]}]

\* client.delete_branch: refused when the app has no such branch
DeleteBranch(c, app, name, faults) ==
    IF c.outcome # "ok" THEN c
    ELSE IF name \notin DOMAIN c.amplify[app] \/ "delete_branch" \in faults
    THEN [c EXCEPT !.calls = Append(@, AmplifyEntry("delete_branch", app, name, FALSE)),
                   !.outcome = "ClientError"]
    ELSE [c EXCEPT !.calls = Append(@, AmplifyEntry("delete_branch", app, name, TRUE)),
                   !.amplify[app] = [n \in DOMAIN @ \ {name} |-> @[n]]]

\* except ClientError: print(...) -- the error is reported and the computation goes on
Caught(c, what) ==
    IF c.outcome = "ClientError"
    THEN [c EXCEPT !.outcome = "ok", !.reported = Append(@, what)]
    ELSE c

(***************************************************************************)
(* setup_deployment_bucket, lines 94-125.  The result is the computation   *)
(* with the returned value in result (meaningful when outcome = "ok").     *)
(***************************************************************************)
\* a variant of ConfigureBucket with the two calls in the other order
ConfigureBucketSwapped(c, bucket_name, faults) ==
    PutBucketEncryption(PutPublicAccessBlock(c, bucket_name, PUBLIC_ACCESS_FLAGS, faults),
                        bucket_name, "AES256", faults)

ConfigureBucket(c, bucket_name, faults) ==
    PutPublicAccessBlock(PutBucketEncryption(c, bucket_name, "AES256", faults),
                         bucket_name, PUBLIC_ACCESS_FLAGS, faults)

\* a variant of setup_deployment_bucket without the except ClientError of
\* lines 104-106
setup_deployment_bucket_Uncaught(c, stage, faults) ==
    LET bucket_name == BUCKET_PREFIX \o Lower(stage)
        c1 == CreateBucket(c, bucket_name, faults)
    IN  [result |-> TRUE, c |-> ConfigureBucket(c1, bucket_name, faults)]

setup_deployment_bucket(c, stage, faults) ==
    LET bucket_name == BUCKET_PREFIX \o Lower(stage)
        c1 == CreateBucket(c, bucket_name, faults)
    IN  IF c1.outcome = "ClientError"
        THEN [result |-> FALSE,
              c |-> Caught(c1, "Unable to create bucket")]
        ELSE [result |-> TRUE, c |-> ConfigureBucket(c1, bucket_name, faults)]

(***************************************************************************)
(* setup_claire_amplify, lines 10-55                                       *)
(***************************************************************************)
\* a variant without the return of lines 45 and 81
CreateBranchAndReleaseNoReturn(c, app, branch, props, faults) ==
    StartJob(Caught(CreateBranch(c, app, branch, props, faults),
                    "Call to the Amplify Console throw an exception"),
             app, branch, faults)

\* lines 27-53 and 67-89: create the branch, then start the release job
CreateBranchAndRelease(c, app, branch, props, faults) ==
    LET c1 == CreateBranch(c, app, branch, props, faults)
    IN  IF c1.outcome = "ClientError"
        THEN Caught(c1, "Call to the Amplify Console throw an exception")
        ELSE StartJob(c1, app, branch, faults)

setup_claire_amplify(w, branch, env_name, bretha_graphql_endpoint, shared_data_with, faults) ==
    IF branch = EMPTY \/ env_name = EMPTY \/ bretha_graphql_endpoint = EMPTY
       \/ shared_data_with = EMPTY
    THEN [CloudStart(w) EXCEPT !.outcome = "AssertionError"]
    ELSE LET b == setup_deployment_bucket(CloudStart(w), Lower(env_name), faults)
         IN  IF b.c.outcome # "ok"
             THEN b.c
             ELSE CreateBranchAndRelease(
                 b.c, config["claire"]["app_id"], branch,
                 [stage |-> "DEVELOPMENT", enableAutoBuild |-> TRUE,
                  tags |-> <<"claire-">> \o env_name,
                  displayName |-> Lower(env_name),
                  environmentVariables |->
                      [BRETHA_GRAPHQL_ENDPOINT |-> bretha_graphql_endpoint,
                       SHARED_DATA_WITH |-> shared_data_with]],
                 faults)

(***************************************************************************)
(* setup_wellsky_apps_amplify, lines 58-91                                 *)
(***************************************************************************)
setup_wellsky_apps_amplify(w, branch, env_name, faults) ==
    IF branch = EMPTY \/ env_name = EMPTY
    THEN [CloudStart(w) EXCEPT !.outcome = "AssertionError"]
    ELSE CreateBranchAndRelease(
             CloudStart(w), config["wellsky-apps"]["app_id"], branch,
             [stage |-> "DEVELOPMENT", enableAutoBuild |-> TRUE,
              tags |-> <<"wellsky-apps-">> \o env_name,
              displayName |-> Lower(env_name)],
             faults)

(***************************************************************************)
(* remove_amplify, lines 128-142                                           *)
(***************************************************************************)
\* a variant of remove_amplify without the except ClientError of lines 139-141
remove_amplify_Uncaught(w, product, env_name, faults) ==
    IF product = "" \/ env_name = EMPTY
    THEN [CloudStart(w) EXCEPT !.outcome = "AssertionError"]
    ELSE DeleteBranch(CloudStart(w), config[product]["app_id"], env_name, faults)

remove_amplify(w, product, env_name, faults) ==
    IF product = "" \/ env_name = EMPTY
    THEN [CloudStart(w) EXCEPT !.outcome = "AssertionError"]
    ELSE Caught(DeleteBranch(CloudStart(w), config[product]["app_id"], env_name, faults),
                "Unable to remove Amplify branch")

(***************************************************************************)
(* State                                                                   *)
(***************************************************************************)
World == [repo |-> repo, buckets |-> buckets, amplify |-> amplify, jobs |-> jobs]

NoArgs == [parsed |-> FALSE]

FEATURE == ISSUE_PREFIX \o QA_UPPER

\* The repositories as cloned: on the default branch; the ticket's branch may
\* exist locally, at origin, or both; the working tree may be dirty.
RepoStates ==
    { [branches |-> {MAIN} \cup b, origin |-> {MAIN} \cup o, current |-> MAIN,
       dirty |-> d] : b \in SUBSET {FEATURE}, o \in SUBSET {FEATURE}, d \in BOOLEAN }

Init ==
    /\ repo \in [Products -> RepoStates]
    /\ buckets = <<>>
    /\ amplify = [a \in {config[p]["app_id"] : p \in Products} |-> <<>>]
    /\ jobs = {}
    /\ history = <<>>
    /\ pc = "parse"
    /\ args = NoArgs

Last == history[Len(history)]

(***************************************************************************)
(* A call of setup_git                                                     *)
(***************************************************************************)
GitBranchNames == {EMPTY, MAIN, FEATURE}

GitRecord(product, branch_name, no_create, ignore_non_existing, reset_only, path_exists, g) ==
    [op |-> "setup_git",
     args |-> [product |-> product, branch_name |-> branch_name,
               no_create |-> no_create, ignore_non_existing |-> ignore_non_existing,
               reset_only |-> reset_only, path_exists |-> path_exists],
     outcome |-> g.outcome, calls |-> g.calls, pre |-> World]

CallSetupGit ==
    \E product \in Products \cup {""}, branch_name \in GitBranchNames,
       no_create \in BOOLEAN, ignore_non_existing \in BOOLEAN, reset_only \in BOOLEAN,
       path_exists \in BOOLEAN :
      \* a conflict with local changes needs a dirty working tree
      \E conflict \in IF product \in Products /\ repo[product].dirty
                      THEN BOOLEAN ELSE {FALSE} :
        LET g == setup_git(repo, product, branch_name, no_create,
                           ignore_non_existing, reset_only, path_exists, conflict)
        IN  /\ repo' = IF product \in DOMAIN config
                       THEN [repo EXCEPT ![product] = g.r]
                       ELSE repo
            /\ history' = <<GitRecord(product, branch_name, no_create,
                                      ignore_non_existing, reset_only,
                                      path_exists, g)>>
            /\ UNCHANGED <<buckets, amplify, jobs, pc, args>>

NextGit == CallSetupGit

SpecGit == Init /\ [][NextGit]_vars

(***************************************************************************)
(* Calls of the storage and deployment operations                          *)
(***************************************************************************)
CleanClone == [branches |-> {MAIN}, origin |-> {MAIN}, current |-> MAIN, dirty |-> FALSE]

InitCloud == Init /\ repo = [p \in Products |-> CleanClone]

QA_MIXED == <<"Q", "a">>

DEV == <<"d", "1">>

Stages == {QA_UPPER, QA_LOWER, QA_MIXED, DEV}

ENDPOINT == <<"http://graphql.claire-qa.clearcare.ninja">>

CloudRecord(name, a, c, result, pre) ==
    [op |-> name, args |-> a, outcome |-> c.outcome, result |-> result,
     calls |-> c.calls, reported |-> c.reported, pre |-> pre]

Commit(c) ==
    /\ buckets' = c.buckets
    /\ amplify' = c.amplify
    /\ jobs' = c.jobs

CallSetupDeploymentBucket ==
    \E stage \in Stages,
       faults \in SUBSET {"create_bucket", "put_bucket_encryption",
                          "put_public_access_block"} :
        LET b == setup_deployment_bucket(CloudStart(World), stage, faults)
        IN  /\ Commit(b.c)
            /\ history' = <<CloudRecord("setup_deployment_bucket", [stage |-> stage],
                                        b.c, b.result, World)>>
            /\ UNCHANGED <<repo, pc, args>>

NextBucket == CallSetupDeploymentBucket

SpecBucket == InitCloud /\ [][NextBucket]_vars

CloudBranchNames == {EMPTY, FEATURE, QA_UPPER}

EnvNames == {EMPTY, QA_UPPER}

\* the service faults that can matter to a call with these arguments
FaultsFor(valid, calls) == IF valid THEN SUBSET calls ELSE {{}}

CallSetupClaireAmplify ==
    \E branch \in CloudBranchNames, env_name \in EnvNames,
       bretha_graphql_endpoint \in {EMPTY, ENDPOINT}, shared_data_with \in {EMPTY, QA_LOWER} :
      \E faults \in FaultsFor(branch # EMPTY /\ env_name # EMPTY
                                /\ bretha_graphql_endpoint # EMPTY
                                /\ shared_data_with # EMPTY,
                              {"create_bucket", "put_bucket_encryption",
                               "put_public_access_block", "create_branch", "start_job"}) :
        LET c == setup_claire_amplify(World, branch, env_name, bretha_graphql_endpoint,
                                      shared_data_with, faults)
        IN  /\ Commit(c)
            /\ history' = <<CloudRecord("setup_claire_amplify",
                                        [product |-> "claire", branch |-> branch,
                                         env_name |-> env_name,
                                         bretha_graphql_endpoint |-> bretha_graphql_endpoint,
                                         shared_data_with |-> shared_data_with],
                                        c, "None", World)>>
            /\ UNCHANGED <<repo, pc, args>>

CallSetupWellskyAppsAmplify ==
    \E branch \in {EMPTY, FEATURE}, env_name \in EnvNames :
      \E faults \in FaultsFor(branch # EMPTY /\ env_name # EMPTY,
                              {"create_branch", "start_job"}) :
        LET c == setup_wellsky_apps_amplify(World, branch, env_name, faults)
        IN  /\ Commit(c)
            /\ history' = <<CloudRecord("setup_wellsky_apps_amplify",
                                        [product |-> "wellsky-apps", branch |-> branch,
                                         env_name |-> env_name],
                                        c, "None", World)>>
            /\ UNCHANGED <<repo, pc, args>>

CallRemoveAmplify ==
    \E product \in Products \cup {""}, env_name \in CloudBranchNames :
      \E faults \in FaultsFor(product # "" /\ env_name # EMPTY, {"delete_branch"}) :
        LET c == remove_amplify(World, product, env_name, faults)
        IN  /\ Commit(c)
            /\ history' = <<CloudRecord("remove_amplify",
                                        [product |-> product, env_name |-> env_name],
                                        c, "None", World)>>
            /\ UNCHANGED <<repo, pc, args>>

NextAmplify ==
    \/ CallSetupClaireAmplify
    \/ CallSetupWellskyAppsAmplify
    \/ CallRemoveAmplify

SpecAmplify == InitCloud /\ [][NextAmplify]_vars

(***************************************************************************)
(* The command-line driver, lines 185-250.  pc is the statement about to   *)
(* run; "done" is the end of the script, "exit0" the exit(0) of line 223,  *)
(* "raised" an exception that reached the top level (the exception is the  *)
(* outcome of the last operation in history).                              *)
(***************************************************************************)
\* the repositories before a run: the ticket's branch exists or not (locally
\* and at origin alike), the working tree is clean or dirty
RepoStatesMain ==
    { [branches |-> {MAIN} \cup b, origin |-> {MAIN} \cup b, current |-> MAIN,
       dirty |-> d] : b \in SUBSET {FEATURE}, d \in BOOLEAN }

InitMain == Init /\ repo \in [Products -> RepoStatesMain]

\* lines 190-208: parser.parse_args(); copy-data-from and share-data-with
\* are mutually exclusive, new belongs to the jira subcommand
ParseArgs ==
    /\ pc = "parse"
    /\ \E claire \in BOOLEAN, wellsky_apps \in BOOLEAN,
          branch \in {EMPTY, FEATURE}, env \in {EMPTY, QA_UPPER},
          remote_only \in BOOLEAN, local_only \in BOOLEAN, remove \in BOOLEAN,
          data \in {<<EMPTY, EMPTY>>, <<QA_LOWER, EMPTY>>, <<EMPTY, QA_LOWER>>},
          jira \in {<<EMPTY, FALSE>>, <<QA_UPPER, FALSE>>, <<QA_UPPER, TRUE>>} :
            args' = [parsed |-> TRUE, claire |-> claire, wellsky_apps |-> wellsky_apps,
                     branch |-> branch, env |-> env, remote_only |-> remote_only,
                     local_only |-> local_only, remove |-> remove,
                     bretha_graphql_endpoint |-> ENDPOINT,
                     copy_data_from |-> data[1], share_data_with |-> data[2],
                     ticket |-> jira[1], new |-> jira[2]]
    /\ pc' = "shortcut"
    /\ UNCHANGED <<repo, buckets, amplify, jobs, history>>

\* lines 210-217: the jira shortcut rewrites the arguments
Shortcut ==
    /\ pc = "shortcut"
    /\ IF args.ticket # EMPTY
       THEN IF args.new
            THEN /\ args' = [args EXCEPT !.branch = ISSUE_PREFIX \o args.ticket,
                                         !.env = args.ticket,
                                         !.share_data_with = QA_LOWER,
                                         !.local_only = FALSE]
                 /\ pc' = "local_claire"
            ELSE /\ args' = [args EXCEPT !.branch = ISSUE_PREFIX \o args.ticket,
                                         !.local_only = TRUE]
                 /\ pc' = "attach_claire"
       ELSE /\ args' = args
            /\ pc' = "local_claire"
    /\ UNCHANGED <<repo, buckets, amplify, jobs, history>>

\* a statement that is skipped
Skip(next) ==
    /\ pc' = next
    /\ UNCHANGED <<repo, buckets, amplify, jobs, history>>

\* a variant of MainSetupGit that goes on after an exception
MainSetupGitSwallow(product, ignore_non_existing, next) ==
    \E conflict \in IF repo[product].dirty THEN BOOLEAN ELSE {FALSE} :
        LET g == setup_git(repo, product, args.branch, args.local_only,
                           ignore_non_existing, FALSE, TRUE, conflict)
        IN  /\ repo' = [repo EXCEPT ![product] = g.r]
            /\ history' = Append(history,
                                 GitRecord(product, args.branch, args.local_only,
                                           ignore_non_existing, FALSE, TRUE, g))
            /\ pc' = next
            /\ UNCHANGED <<buckets, amplify, jobs>>

\* a setup_git call of the driver
MainSetupGit(product, ignore_non_existing, next) ==
    \E conflict \in IF repo[product].dirty THEN BOOLEAN ELSE {FALSE} :
        LET g == setup_git(repo, product, args.branch, args.local_only,
                           ignore_non_existing, FALSE, TRUE, conflict)
        IN  /\ repo' = [repo EXCEPT ![product] = g.r]
            /\ history' = Append(history,
                                 GitRecord(product, args.branch, args.local_only,
                                           ignore_non_existing, FALSE, TRUE, g))
            /\ pc' = IF g.outcome = "ok" THEN next ELSE "raised"
            /\ UNCHANGED <<buckets, amplify, jobs>>

\* lines 219-220
AttachClaire ==
    /\ pc = "attach_claire"
    /\ IF args.claire
       THEN MainSetupGit("claire", TRUE, "attach_wellsky")
       ELSE Skip("attach_wellsky")
    /\ UNCHANGED args

\* lines 221-223
AttachWellsky ==
    /\ pc = "attach_wellsky"
    /\ IF args.wellsky_apps
       THEN MainSetupGit("wellsky-apps", TRUE, "exit0")
       ELSE Skip("exit0")
    /\ UNCHANGED args

\* a variant of LocalClaire that does not test remote_only
LocalClaireIgnoringRemoteOnly ==
    /\ pc = "local_claire"
    /\ IF args.branch # EMPTY /\ args.claire
       THEN MainSetupGit("claire", FALSE, "local_wellsky")
       ELSE Skip("local_wellsky")
    /\ UNCHANGED args

\* lines 226-228
LocalClaire ==
    /\ pc = "local_claire"
    /\ IF ~args.remote_only /\ args.branch # EMPTY /\ args.claire
       THEN MainSetupGit("claire", FALSE, "local_wellsky")
       ELSE Skip("local_wellsky")
    /\ UNCHANGED args

\* lines 229-230
LocalWellsky ==
    /\ pc = "local_wellsky"
    /\ IF ~args.remote_only /\ args.branch # EMPTY /\ args.wellsky_apps
       THEN MainSetupGit("wellsky-apps", FALSE, "remote_claire")
       ELSE Skip("remote_claire")
    /\ UNCHANGED args

\* the outcome of a create or remove workflow called by the driver
MainCloud(name, a, c, next) ==
    /\ Commit(c)
    /\ history' = Append(history, CloudRecord(name, a, c, "None", World))
    /\ pc' = IF c.outcome = "ok" THEN next ELSE "raised"
    /\ UNCHANGED repo

MainRemove(product, next) ==
    \E faults \in FaultsFor(args.env # EMPTY, {"delete_branch"}) :
        MainCloud("remove_amplify", [product |-> product, env_name |-> args.env],
                  remove_amplify(World, product, args.env, faults), next)

\* lines 232-235 and 239-243
RemoteClaire ==
    /\ pc = "remote_claire"
    /\ IF ~args.local_only /\ args.claire
       THEN IF args.remove
            THEN MainRemove("claire", "remote_wellsky")
            ELSE \E faults \in FaultsFor(args.branch # EMPTY /\ args.env # EMPTY
                                           /\ args.share_data_with # EMPTY,
                                         {"create_bucket", "put_bucket_encryption",
                                          "put_public_access_block", "create_branch",
                                          "start_job"}) :
                    MainCloud("setup_claire_amplify",
                              [product |-> "claire", branch |-> args.branch,
                               env_name |-> args.env,
                               bretha_graphql_endpoint |-> args.bretha_graphql_endpoint,
                               shared_data_with |-> args.share_data_with],
                              setup_claire_amplify(World, args.branch, args.env,
                                                   args.bretha_graphql_endpoint,
                                                   args.share_data_with, faults),
                              "remote_wellsky")
       ELSE Skip("remote_wellsky")
    /\ UNCHANGED args

\* lines 236-237 and 244-247
RemoteWellsky ==
    /\ pc = "remote_wellsky"
    /\ IF ~args.local_only /\ args.wellsky_apps
       THEN IF args.remove
            THEN MainRemove("wellsky-apps", "copy_data")
            ELSE \E faults \in FaultsFor(args.branch # EMPTY /\ args.env # EMPTY,
                                         {"create_branch", "start_job"}) :
                    MainCloud("setup_wellsky_apps_amplify",
                              [product |-> "wellsky-apps", branch |-> args.branch,
                               env_name |-> args.env],
                              setup_wellsky_apps_amplify(World, args.branch, args.env,
                                                         faults),
                              "copy_data")
       ELSE Skip("copy_data")
    /\ UNCHANGED args

\* lines 181-182 and 249-250: copy_data always raises
CopyData ==
    /\ pc = "copy_data"
    /\ IF ~args.local_only /\ ~args.remove /\ args.copy_data_from # EMPTY
       THEN /\ history' = Append(history,
                                 [op |-> "copy_data",
                                  args |-> [dto |-> args.env, dfrom |-> args.copy_data_from],
                                  outcome |-> "NotImplementedError", result |-> "None",
                                  calls |-> <<>>, reported |-> <<>>, pre |-> World])
            /\ pc' = "raised"
       ELSE /\ history' = history
            /\ pc' = "done"
    /\ UNCHANGED <<repo, buckets, amplify, jobs, args>>

NextMain ==
    \/ ParseArgs
    \/ Shortcut
    \/ AttachClaire
    \/ AttachWellsky
    \/ LocalClaire
    \/ LocalWellsky
    \/ RemoteClaire
    \/ RemoteWellsky
    \/ CopyData

SpecMain == InitMain /\ [][NextMain]_vars

(***************************************************************************)
(* Properties of setup_git                                                 *)
(***************************************************************************)
\* The last operation was a setup_git call whose preconditions (lines
\* 147-154) hold: a configured product, an existing path, a branch name.
GitCall ==
    /\ history # <<>>
    /\ Last.op = "setup_git"
    /\ Last.args.product \in DOMAIN config
    /\ Last.args.path_exists
    /\ Last.args.branch_name # EMPTY

GitPre == Last.pre.repo[Last.args.product]

GitPost == repo[Last.args.product]

HasDefault == "default-branch" \in DOMAIN config[Last.args.product]

CallsOf(kind) == { i \in 1..Len(Last.calls) : Last.calls[i].op = kind }

CallsNaming(name) == { i \in 1..Len(Last.calls) : Last.calls[i].name = name }

GitCallEntry(kind, name) == [op |-> kind, name |-> name, ok |-> TRUE]

\* C3 (as the specification states it): a call with no_create and
\* ignore_non_existing, not reset_only, on a branch that does not exist
\* returns success, performs no branch creation, push or checkout, and leaves
\* the repository as it was.
C3_IgnoredMissingBranchIsNoOp ==
    (GitCall /\ Last.args.no_create /\ Last.args.ignore_non_existing
             /\ ~Last.args.reset_only /\ Last.args.branch_name \notin GitPre.branches)
    => (Last.outcome = "ok" /\ Last.calls = <<>> /\ repo = Last.pre.repo)

\* C6 (as the specification states it): a reset_only call on a product with
\* a default branch fails with the dirty error and no checkout when the tree
\* is dirty, ends on the default branch when it is clean, and never creates,
\* pushes or checks out branch_name.
C6_ResetOnlyNeverTouchesBranch ==
    (GitCall /\ Last.args.reset_only /\ HasDefault)
    => /\ GitPre.dirty => (Last.outcome = "ValueError: repo is dirty" /\ Last.calls = <<>>)
       /\ ~GitPre.dirty => (Last.outcome = "ok"
                            /\ GitPost.current = config[Last.args.product]["default-branch"])
       /\ CallsNaming(Last.args.branch_name) = {}

\* C6 (amended): as above, except that the only gateway call of a clean
\* reset_only call is the checkout of the default branch, so branch_name is
\* never created or pushed, and is checked out only when it is itself the
\* default branch.
C6_ResetOnlyEndsOnDefault ==
    (GitCall /\ Last.args.reset_only /\ HasDefault)
    => /\ GitPre.dirty => (Last.outcome = "ValueError: repo is dirty" /\ Last.calls = <<>>
                           /\ repo = Last.pre.repo)
       /\ ~GitPre.dirty =>
            /\ Last.outcome = "ok"
            /\ GitPost.current = config[Last.args.product]["default-branch"]
            /\ Last.calls = <<GitCallEntry("checkout",
                                           config[Last.args.product]["default-branch"])>>
            /\ GitPost.branches = GitPre.branches
            /\ GitPost.origin = GitPre.origin
       /\ CallsNaming(Last.args.branch_name) # {}
            => Last.args.branch_name = config[Last.args.product]["default-branch"]

C6_Witness ==
    /\ GitCall /\ Last.args.reset_only /\ HasDefault
    /\ ~GitPre.dirty
    /\ GitPre.current = FEATURE
    /\ Last.args.branch_name = FEATURE
    /\ GitPost.current = MAIN
    /\ Last.outcome = "ok"

\* C7: a call with no_create, without ignore_non_existing and reset_only, on
\* a branch that does not exist fails with the branch-not-found error, and
\* nothing was checked out, created or pushed.
C7_MissingBranchFailsWithoutMutation ==
    (GitCall /\ Last.args.no_create /\ ~Last.args.ignore_non_existing
             /\ ~Last.args.reset_only /\ Last.args.branch_name \notin GitPre.branches)
    => (Last.outcome = "ValueError: branch does not exist"
        /\ Last.calls = <<>> /\ repo = Last.pre.repo)

C7_Witness ==
    /\ GitCall /\ Last.args.no_create /\ ~Last.args.ignore_non_existing
    /\ ~Last.args.reset_only /\ Last.args.branch_name \notin GitPre.branches
    /\ HasDefault /\ ~GitPre.dirty
    /\ Last.outcome = "ValueError: branch does not exist"

\* The calls of the create path: the default-branch checkout when one is
\* configured, then create, push, checkout of the new branch.
CreatePathCalls ==
    (IF HasDefault
     THEN <<GitCallEntry("checkout", config[Last.args.product]["default-branch"])>>
     ELSE <<>>)
    \o <<GitCallEntry("create_head", Last.args.branch_name),
         GitCallEntry("push", Last.args.branch_name),
         GitCallEntry("checkout", Last.args.branch_name)>>

\* C8: a call without no_create and reset_only on a branch that does not
\* exist, which passes the clean check of step 1 when a default branch is
\* configured, creates the branch once, then pushes it once to origin, then
\* checks it out; and a push occurs on no other path.
C8_CreatePushCheckoutInOrder ==
    /\ (GitCall /\ ~Last.args.no_create /\ ~Last.args.reset_only
                /\ Last.args.branch_name \notin GitPre.branches
                /\ ~(HasDefault /\ GitPre.dirty))
       => /\ Last.outcome = "ok"
          /\ Last.calls = CreatePathCalls
          /\ GitPost.branches = GitPre.branches \cup {Last.args.branch_name}
          /\ Last.args.branch_name \in GitPost.origin
          /\ GitPost.current = Last.args.branch_name
    /\ (history # <<>> /\ Last.op = "setup_git" /\ CallsOf("push") # {})
       => (GitCall /\ ~Last.args.no_create /\ ~Last.args.reset_only
           /\ Last.args.branch_name \notin GitPre.branches)

C8_Witness ==
    /\ GitCall /\ ~Last.args.no_create /\ ~Last.args.reset_only
    /\ Last.args.branch_name \notin GitPre.branches
    /\ Last.args.branch_name \notin GitPre.origin
    /\ HasDefault
    /\ Len(Last.calls) = 4
    /\ GitPost.current = Last.args.branch_name

\* C9: a call without reset_only on a branch that exists fails with the
\* dirty error, without checking the branch out, when the tree is dirty; when
\* it is clean the call ends with the branch checked out, and no branch is
\* created and nothing is pushed.
C9_ExistingBranchNeedsCleanTree ==
    (GitCall /\ ~Last.args.reset_only /\ Last.args.branch_name \in GitPre.branches)
    => /\ GitPre.dirty =>
            /\ Last.outcome = "ValueError: repo is dirty"
            /\ CallsNaming(Last.args.branch_name) = {}
            /\ GitPost.current = GitPre.current
       /\ ~GitPre.dirty =>
            /\ Last.outcome = "ok"
            /\ GitPost.current = Last.args.branch_name
            /\ Last.calls[Len(Last.calls)] = GitCallEntry("checkout", Last.args.branch_name)
            /\ CallsOf("create_head") = {} /\ CallsOf("push") = {}
            /\ GitPost.branches = GitPre.branches
            /\ GitPost.origin = GitPre.origin

C9_Witness ==
    /\ GitCall /\ ~Last.args.reset_only /\ Last.args.branch_name \in GitPre.branches
    /\ ~GitPre.dirty
    /\ Last.args.no_create
    /\ GitPre.current # Last.args.branch_name
    /\ GitPost.current = Last.args.branch_name

C9_WitnessDirty ==
    /\ GitCall /\ ~Last.args.reset_only /\ Last.args.branch_name \in GitPre.branches
    /\ GitPre.dirty /\ Last.args.no_create
    /\ Last.outcome = "ValueError: repo is dirty"

(***************************************************************************)
(* Properties of the create and remove workflows                           *)
(***************************************************************************)
IsCreate ==
    /\ history # <<>>
    /\ Last.op \in {"setup_claire_amplify", "setup_wellsky_apps_amplify"}

CreateBranchRefused ==
    \E i \in 1..Len(Last.calls) : Last.calls[i].op = "create_branch" /\ ~Last.calls[i].ok

\* C1: in both create workflows, when create_branch is refused no start_job
\* call is issued, the error is reported and the operation returns normally;
\* and a start_job call is only ever issued after a create_branch call for the
\* same app and branch has succeeded in that operation.
C1_NoReleaseJobWithoutBranch ==
    IsCreate =>
      /\ CreateBranchRefused =>
            /\ CallsOf("start_job") = {}
            /\ Last.outcome = "ok"
            /\ Last.reported # <<>>
            /\ Last.reported[Len(Last.reported)]
                   = "Call to the Amplify Console throw an exception"
            /\ jobs = Last.pre.jobs
            /\ amplify = Last.pre.amplify
      /\ \A i \in CallsOf("start_job") :
            \E j \in 1..(i - 1) :
                Last.calls[j] = AmplifyEntry("create_branch", Last.calls[i].app,
                                             Last.calls[i].name, TRUE)

C1_Witness ==
    /\ IsCreate /\ CreateBranchRefused
    /\ Last.op = "setup_claire_amplify"
    /\ Last.args.branch \in DOMAIN Last.pre.amplify[config["claire"]["app_id"]]
    /\ Last.outcome = "ok"

C1_WitnessStarted ==
    /\ IsCreate /\ CallsOf("start_job") # {}
    /\ Last.op = "setup_wellsky_apps_amplify"
    /\ jobs # Last.pre.jobs

TagPrefix(product) == IF product = "claire" THEN <<"claire-">> ELSE <<"wellsky-apps-">>

\* C10 (as the specification states it): the cloud branch that a create
\* workflow makes for env_name is the branch that remove_amplify deletes for
\* env_name: after a successful remove_amplify(product, env_name) the app has
\* no branch that a create workflow made for that product and env_name (such
\* a branch carries the tag "<product>-<env_name>").
C10_RemoveDeletesWhatCreateMade ==
    (history # <<>> /\ Last.op = "remove_amplify" /\ Last.outcome = "ok"
     /\ Last.calls # <<>> /\ Last.calls[1].ok)
    => \A n \in DOMAIN amplify[config[Last.args.product]["app_id"]] :
          amplify[config[Last.args.product]["app_id"]][n].tags
              # TagPrefix(Last.args.product) \o Last.args.env_name

(***************************************************************************)
(* Properties of setup_deployment_bucket                                   *)
(***************************************************************************)
IsBucketCall == history # <<>> /\ Last.op = "setup_deployment_bucket"

FullyConfigured(b) ==
    /\ b.encryption = "AES256"
    /\ b.public_access_block = {"BlockPublicAcls", "IgnorePublicAcls",
                                "BlockPublicPolicy", "RestrictPublicBuckets"}

\* C4 (as the specification states it): between calls, every deployment
\* bucket that exists has AES256 default encryption and all four
\* public-access-block flags.
C4_BucketsAreEncryptedAndPrivate ==
    \A n \in DOMAIN buckets : FullyConfigured(buckets[n])

\* the bucket name the specification gives for each stage of Stages
ExpectedBucketName(stage) ==
    IF stage = <<"d", "1">>
    THEN <<"serverless-deployment-state-", "d", "1">>
    ELSE <<"serverless-deployment-state-", "q", "a">>

AllCallsSucceeded == \A i \in 1..Len(Last.calls) : Last.calls[i].ok

\* C5: a call for a stage whose bucket does not exist, when the storage
\* service accepts its calls, creates the bucket named
\* serverless-deployment-state-<lower(stage)>, then sets AES256 encryption,
\* then sets the four public-access-block flags, and returns true; a call for
\* a stage whose bucket exists (created under the same name or one differing
\* in letter case) returns false, issues no configuration call and leaves the
\* buckets as they were.
C5_EnsureBucketIsIdempotent ==
    IsBucketCall =>
      LET name == ExpectedBucketName(Last.args.stage)
      IN  /\ (name \notin DOMAIN Last.pre.buckets /\ AllCallsSucceeded) =>
                /\ Last.calls = <<S3Entry("create_bucket", name, TRUE),
                                  S3Entry("put_bucket_encryption", name, TRUE),
                                  S3Entry("put_public_access_block", name, TRUE)>>
                /\ Last.outcome = "ok" /\ Last.result = TRUE
                /\ DOMAIN buckets = DOMAIN Last.pre.buckets \cup {name}
                /\ FullyConfigured(buckets[name])
                /\ \A n \in DOMAIN Last.pre.buckets : buckets[n] = Last.pre.buckets[n]
          /\ name \in DOMAIN Last.pre.buckets =>
                /\ Last.calls = <<S3Entry("create_bucket", name, FALSE)>>
                /\ Last.outcome = "ok" /\ Last.result = FALSE
                /\ buckets = Last.pre.buckets

\* a second call, in another letter case, on a bucket made by a first call
C5_Witness ==
    /\ IsBucketCall
    /\ Last.args.stage = QA_UPPER
    /\ ExpectedBucketName(QA_UPPER) \in DOMAIN Last.pre.buckets
    /\ FullyConfigured(buckets[ExpectedBucketName(QA_UPPER)])
    /\ Last.result = FALSE
    /\ Cardinality(DOMAIN buckets) = 1

C5_WitnessFirst ==
    /\ IsBucketCall
    /\ Last.args.stage = QA_UPPER
    /\ Last.pre.buckets = <<>>
    /\ Last.result = TRUE /\ Last.outcome = "ok"

(***************************************************************************)
(* Properties of a run of the driver                                       *)
(***************************************************************************)
IsRemoteOp(h, product) ==
    /\ h.op \in {"setup_claire_amplify", "setup_wellsky_apps_amplify", "remove_amplify"}
    /\ h.args.product = product

HasRefusedCall(h) == \E k \in 1..Len(h.calls) : ~h.calls[k].ok

\* C2 (as the specification states it): in a run with both products
\* selected, a service call refused inside the first product's create or
\* remove workflow is caught and reported by that workflow, and the second
\* product's workflow is still attempted before the run ends.
C2_RemoteFailuresStayInsideTheProduct ==
    \A i \in 1..Len(history) :
        (args.parsed /\ args.claire /\ args.wellsky_apps
         /\ IsRemoteOp(history[i], "claire") /\ HasRefusedCall(history[i]))
        => /\ history[i].outcome = "ok"
           /\ history[i].reported # <<>>
           /\ pc \in {"done", "raised"}
                => \E j \in (i + 1)..Len(history) : IsRemoteOp(history[j], "wellsky-apps")

(***************************************************************************)
(* Properties of the ticket shortcut                                       *)
(***************************************************************************)
Ended == pc \in {"done", "exit0", "raised"}

Selected(product) == IF product = "claire" THEN args.claire ELSE args.wellsky_apps

AttachRun == args.parsed /\ args.ticket # EMPTY /\ ~args.new

IsCloudOp(h) ==
    h.op \in {"setup_deployment_bucket", "setup_claire_amplify",
              "setup_wellsky_apps_amplify", "remove_amplify"}

HistoryCalls(kinds) ==
    { <<i, k>> \in (1..Len(history)) \X (1..5) :
        k <= Len(history[i].calls) /\ history[i].calls[k].op \in kinds }

\* C11 (as the specification states it): a run of the ticket shortcut
\* without --new calls setup_git for each selected product with branch
\* issue/<ticket>, no_create and ignore_non_existing, makes no storage or
\* deployment call, creates and pushes no branch, ends with exit code 0, and
\* leaves a repository without the ticket's branch as it was.
C11_AttachIsLocalAndHarmless ==
    (AttachRun /\ Ended) =>
      /\ pc = "exit0"
      /\ \A p \in Products :
            Selected(p) => \E i \in 1..Len(history) :
                              /\ history[i].op = "setup_git"
                              /\ history[i].args.product = p
      /\ \A i \in 1..Len(history) :
            /\ history[i].op = "setup_git"
            /\ history[i].args.branch_name = <<"issue/">> \o args.ticket
            /\ history[i].args.no_create
            /\ history[i].args.ignore_non_existing
            /\ history[i].args.branch_name
                   \notin history[i].pre.repo[history[i].args.product].branches
               => repo[history[i].args.product]
                      = history[i].pre.repo[history[i].args.product]
      /\ HistoryCalls({"create_head", "push"}) = {}
      /\ buckets = <<>> /\ jobs = {}
      /\ \A a \in DOMAIN amplify : amplify[a] = <<>>

NewRun == args.parsed /\ args.ticket # EMPTY /\ args.new /\ pc # "shortcut"

HasOp(ops, product) ==
    \E i \in 1..Len(history) : history[i].op \in ops /\ history[i].args.product = product

ReconcilesSucceeded ==
    \A i \in 1..Len(history) : history[i].op = "setup_git" => history[i].outcome = "ok"

\* C12 (as the specification states it, for a run that is given no --remove
\* and no --remote-only): a run of the ticket shortcut with --new has branch
\* issue/<ticket>, environment <ticket> and share target "qa", reconciles with
\* no_create false, never takes the attach exit and never removes; and once
\* the reconciles have succeeded, the run does not end before the create
\* workflow has been invoked for each selected product.
C12_NewTicketRunsFullCreate ==
    (NewRun /\ ~args.remove /\ ~args.remote_only) =>
      /\ args.branch = <<"issue/">> \o args.ticket
      /\ args.env = args.ticket
      /\ args.share_data_with = <<"q", "a">>
      /\ pc \notin {"attach_claire", "attach_wellsky", "exit0"}
      /\ \A i \in 1..Len(history) :
            /\ history[i].op # "remove_amplify"
            /\ history[i].op = "setup_git" =>
                  (~history[i].args.no_create /\ ~history[i].args.ignore_non_existing)
      /\ (Ended /\ ReconcilesSucceeded) =>
            \A p \in Products :
                Selected(p) =>
                  /\ HasOp({"setup_git"}, p)
                  /\ HasOp({"setup_claire_amplify", "setup_wellsky_apps_amplify"}, p)

(***************************************************************************)
(* Properties of the create and remove workflows, continued                *)
(***************************************************************************)
\* the last operation was setup_claire_amplify and its assertions passed
ClaireCreate ==
    /\ history # <<>>
    /\ Last.op = "setup_claire_amplify"
    /\ Last.outcome # "AssertionError"

BucketReturnedFalse ==
    /\ Last.calls # <<>>
    /\ Last.calls[1].op = "create_bucket"
    /\ ~Last.calls[1].ok

\* C13: when setup_deployment_bucket returns false, setup_claire_amplify goes
\* on to create_branch and, when that succeeds, to start_job; the workflow
\* ends before create_branch only when a bucket configuration call raised.
C13_FalseFromBucketDoesNotStopCreate ==
    ClaireCreate =>
      /\ BucketReturnedFalse =>
            /\ Len(Last.calls) >= 2
            /\ Last.calls[2].op = "create_branch"
            /\ Last.calls[2].name = Last.args.branch
            /\ Last.calls[2].app = "claire-app"
            /\ Last.reported[1] = "Unable to create bucket"
            /\ Last.calls[2].ok =>
                  /\ Len(Last.calls) = 3
                  /\ Last.calls[3].op = "start_job"
                  /\ Last.calls[3].name = Last.args.branch
            /\ ~Last.calls[2].ok => (Len(Last.calls) = 2 /\ Last.outcome = "ok")
      /\ CallsOf("create_branch") = {} =>
            /\ Last.outcome = "ClientError"
            /\ Last.calls[Len(Last.calls)].op
                   \in {"put_bucket_encryption", "put_public_access_block"}
            /\ ~Last.calls[Len(Last.calls)].ok

\* the bucket exists already, the create workflow still creates the branch
\* and starts the job
C13_Witness ==
    /\ ClaireCreate /\ BucketReturnedFalse
    /\ DOMAIN Last.pre.buckets # {}
    /\ Len(Last.calls) = 3
    /\ Last.calls[3].op = "start_job" /\ Last.calls[3].ok
    /\ jobs # Last.pre.jobs

\* C14: remove_amplify, its assertions passed, issues exactly one call:
\* delete_branch for the product's app id and branch env_name; no storage
\* call; a refused deletion is reported and the operation returns without
\* raising; and no create or remove operation ever removes a bucket.
C14_RemoveIsOneDeleteAndKeepsBuckets ==
    /\ (history # <<>> /\ Last.op = "remove_amplify" /\ Last.outcome # "AssertionError")
       => /\ Len(Last.calls) = 1
          /\ Last.calls[1].op = "delete_branch"
          /\ Last.calls[1].app = config[Last.args.product]["app_id"]
          /\ Last.calls[1].name = Last.args.env_name
          /\ Last.outcome = "ok"
          /\ buckets = Last.pre.buckets
          /\ jobs = Last.pre.jobs
          /\ ~Last.calls[1].ok =>
                /\ Last.reported = <<"Unable to remove Amplify branch">>
                /\ amplify = Last.pre.amplify
          /\ Last.calls[1].ok =>
                /\ Last.reported = <<>>
                /\ Last.args.env_name \notin DOMAIN amplify[Last.calls[1].app]
    /\ history # <<>> => DOMAIN Last.pre.buckets \subseteq DOMAIN buckets

\* a refused deletion, with a bucket in place
C14_Witness ==
    /\ history # <<>> /\ Last.op = "remove_amplify"
    /\ Last.calls # <<>> /\ ~Last.calls[1].ok
    /\ Last.args.env_name \in DOMAIN Last.pre.amplify[config[Last.args.product]["app_id"]]
    /\ DOMAIN buckets # {}
    /\ Last.outcome = "ok"

CallRank(kind) ==
    CASE kind = "create_bucket" -> 1
      [] kind = "put_bucket_encryption" -> 2
      [] kind = "put_public_access_block" -> 3
      [] kind = "create_branch" -> 4
      [] kind = "start_job" -> 5
      [] OTHER -> 0

\* C17: within one create workflow the service calls are issued in the order
\* create_bucket, put_bucket_encryption, put_public_access_block,
\* create_branch, start_job, each at most once.
C17_CreateCallsInOrderOnce ==
    IsCreate =>
      /\ \A i \in 1..Len(Last.calls) : CallRank(Last.calls[i].op) > 0
      /\ \A i, j \in 1..Len(Last.calls) :
            i < j => CallRank(Last.calls[i].op) < CallRank(Last.calls[j].op)

\* all five calls, on a fresh environment
C17_Witness ==
    /\ IsCreate /\ Last.op = "setup_claire_amplify"
    /\ Len(Last.calls) = 5
    /\ Last.outcome = "ok"
    /\ Last.pre.buckets = <<>>

(***************************************************************************)
(* Properties of the preconditions                                         *)
(***************************************************************************)
\* a required identifier of the operation h is empty
EmptyIdentifier(h) ==
    CASE h.op = "setup_git" ->
            h.args.product = "" \/ h.args.branch_name = EMPTY
      [] h.op = "setup_claire_amplify" ->
            \/ h.args.branch = EMPTY \/ h.args.env_name = EMPTY
            \/ h.args.bretha_graphql_endpoint = EMPTY \/ h.args.shared_data_with = EMPTY
      [] h.op = "setup_wellsky_apps_amplify" ->
            h.args.branch = EMPTY \/ h.args.env_name = EMPTY
      [] h.op = "remove_amplify" ->
            h.args.product = "" \/ h.args.env_name = EMPTY
      [] OTHER -> FALSE

\* C15 (as the specification states it): an operation called with an empty
\* required identifier fails with the precondition error (the failed
\* assertion), having made no call to the storage service, the deployment
\* service or the version-control backend.
C15_EmptyIdentifierFailsPrecondition ==
    (history # <<>> /\ EmptyIdentifier(Last)) =>
      /\ Last.outcome = "AssertionError"
      /\ Last.calls = <<>>
      /\ World = Last.pre

\* C19 (as the specification states it): no setup_git call attempts a
\* checkout while the working tree is dirty.
C19_NoCheckoutWhileDirty ==
    (GitCall /\ GitPre.dirty) => CallsOf("checkout") = {}

(***************************************************************************)
(* Properties of a run of the driver, continued                            *)
(***************************************************************************)
\* C16: in a run, an operation that raised the dirty-repository error or a
\* precondition error is the last operation of the run: the exception
\* reaches the top level and nothing is performed after it for any product.
C16_DirtyOrPreconditionErrorEndsTheRun ==
    \A i \in 1..Len(history) :
        history[i].outcome \in {"ValueError: repo is dirty", "AssertionError", "KeyError"}
        => (i = Len(history) /\ pc = "raised")

\* the dirty error on the first of two selected products
C16_Witness ==
    /\ args.parsed /\ args.claire /\ args.wellsky_apps
    /\ ~args.local_only /\ args.ticket = EMPTY
    /\ pc = "raised"
    /\ Len(history) = 1
    /\ Last.op = "setup_git" /\ Last.args.product = "claire"
    /\ Last.outcome = "ValueError: repo is dirty"

C16_WitnessPrecondition ==
    /\ args.parsed /\ args.claire /\ args.wellsky_apps
    /\ pc = "raised"
    /\ Last.op = "setup_claire_amplify" /\ Last.outcome = "AssertionError"

GeneralRun == args.parsed /\ args.ticket = EMPTY

\* C18: in a run without the ticket shortcut, every setup_git call precedes
\* every storage or deployment operation (so each product's reconcile is
\* complete before its remote calls); with --remote-only there is no
\* setup_git call, and with --local-only no storage or deployment operation.
C18_LocalBeforeRemote ==
    GeneralRun =>
      /\ \A i, j \in 1..Len(history) :
            (IsCloudOp(history[i]) /\ history[j].op = "setup_git") => j < i
      /\ args.remote_only =>
            /\ \A i \in 1..Len(history) : history[i].op # "setup_git"
            /\ Len(history) > 0 => repo = history[1].pre.repo
      /\ args.local_only =>
            /\ \A i \in 1..Len(history) : ~IsCloudOp(history[i])
            /\ buckets = <<>> /\ jobs = {}
            /\ \A a \in DOMAIN amplify : amplify[a] = <<>>

\* both steps for both products, in order
C18_Witness ==
    /\ GeneralRun /\ ~args.remote_only /\ ~args.local_only
    /\ Len(history) = 4
    /\ history[1].op = "setup_git" /\ history[2].op = "setup_git"
    /\ history[3].op = "setup_claire_amplify"
    /\ history[4].op = "setup_wellsky_apps_amplify"
    /\ pc = "done"

C18_WitnessRemoteOnly ==
    /\ GeneralRun /\ args.remote_only /\ args.branch # EMPTY /\ args.claire
    /\ Len(history) = 1 /\ IsCloudOp(history[1])
    /\ pc = "done"

\* C20 (as the specification states it): a create run without the ticket
\* shortcut that ends with a precondition error has created and pushed no
\* local branch and created no bucket, cloud branch or release job.
C20_PreconditionErrorBeforeAnyMutation ==
    (GeneralRun /\ ~args.remove /\ pc = "raised" /\ Last.outcome = "AssertionError")
    => /\ HistoryCalls({"create_head", "push"}) = {}
       /\ \A p \in Products : repo[p].branches = history[1].pre.repo[p].branches
       /\ buckets = <<>> /\ jobs = {}
       /\ \A a \in DOMAIN amplify : amplify[a] = <<>>

====
